---------------------------- MODULE Spec2Model ----------------------------
(***************************************************************************)
(* Visual-search grid generator (src/main.py).                             *)
(*                                                                         *)
(* main() reads a configuration and, for every session, condition and grid *)
(* index, calls generate_random_grid and appends one record to `grids`,    *)
(* which is written once at the end.  generate_random_grid samples unique  *)
(* non-target values by rejection, shuffles them, places each in a random  *)
(* empty cell by rejection, and after one Bernoulli trial overwrites a     *)
(* random occupied cell with the target number.                            *)
(*                                                                         *)
(* Every call of the random module is a nondeterministic choice over the   *)
(* values the call can return.  A draw that the code rejects leaves the    *)
(* modelled state unchanged (the loop runs again).                         *)
(***************************************************************************)
EXTENDS Integers, Sequences, FiniteSets

\* ------------------------------------------------------------------ bounds
\* Largest number of cells, gridWidth * gridHeight, of a configuration.
MaxCells == 4
\* gridMinValue and gridMaxValue range over 1..MaxValue, gridTargetNumber
\* over 0..MaxValue (0 is a target that is never inside the value range).
MaxValue == 3
\* Largest gridNumberOfStimuli.
MaxStimuli == 2
\* Resolution of probabilities: gridTargetNumberInclusionProbability is
\* k / ProbSteps for k in 0..ProbSteps, and random.random() returns
\* r / ProbSteps for r in 0..ProbSteps-1 (a float in [0, 1)).
ProbSteps == 2
\* Largest number of sessions, of conditions, and of grids per condition.
MaxSessions == 2
MaxConditions == 2
MaxGridsPerCondition == 2

\* ------------------------------------------------------- program constants
VERSION == "1.1"

\* Python's None, the content of an empty cell: no integer the bounds admit.
None == -1

SessionNames == <<"training", "testing", "session3", "session4">>
ConditionNames == <<"VisualSearch", "VisualSearchHUD", "condition3", "condition4">>

VARIABLES
    config,                       \* the dict json.load returns (line 105)
    pc,                           \* the control position
    session_i,                    \* position of `session` in studySessions
    condition_i,                  \* position of `condition` in studyConditions
    grid_index_in_condition,      \* the range() loop variable (-1: none yet)
    grids,                        \* the list of records built by main
    grid,                         \* generate_random_grid's 2D array
    values_set,                   \* get_unique_random_values' set
    values_list,                  \* the shuffled list it returns
    value_i,                      \* how many of values_list are placed
    should_insert_target_number,  \* outcome of the Bernoulli trial
    output_file                   \* what json.dump wrote (<<>> before)

vars == <<config, pc, session_i, condition_i, grid_index_in_condition, grids,
          grid, values_set, values_list, value_i,
          should_insert_target_number, output_file>>

\* ------------------------------------------------- configuration shorthands
width == config.gridWidth
height == config.gridHeight
min_value == config.gridMinValue
max_value == config.gridMaxValue
target_number == config.gridTargetNumber
target_number_inclusion_probability == config.gridTargetNumberInclusionProbability
number_of_stimuli == config.gridNumberOfStimuli
conditions == config.studyConditions
number_of_grids_per_condition == config.studyNumberOfGridsPerCondition
sessions == config.studySessions

\* ------------------------------------------------------------ pure helpers
\* Mutant of RandInt: the half-open range of random.randrange(a, b).
RandIntHalfOpen(a, b) == a..(b - 1)

\* random.randint(a, b): any integer of the closed range [a, b].
RandInt(a, b) == a..b

\* Mutant of Range: one iteration too many.
RangeInclusive(n) == 0..n

\* range(n): 0, 1, ..., n-1.
Range(n) == 0..(n - 1)

\* get_grid(width, height): a width x height array of None, indexed [x][y].
get_grid(w, h) == [x \in Range(w) |-> [y \in Range(h) |-> None]]

\* Mutant of IsExcluded: the exclusion list is ignored.
IsExcludedNever(new_value, target) == FALSE

\* numbers_to_exclude=[target_number], and the test `new_value in numbers_to_exclude`.
IsExcluded(new_value, target) == new_value \in {target}

\* `grid[x_pos][y_pos] is None`, the test of the placement loop.
IsEmptyCell(g, x_pos, y_pos) == g[x_pos][y_pos] = None

\* Mutants of IsOccupiedCell: the substitution takes any cell, or it takes
\* an empty cell (`is None` for `is not None`).
IsOccupiedCellAlways(g, x_pos, y_pos) == TRUE
IsOccupiedCellNegated(g, x_pos, y_pos) == g[x_pos][y_pos] = None

\* `grid[x_pos][y_pos] is not None`, the test of the substitution loop.
IsOccupiedCell(g, x_pos, y_pos) == g[x_pos][y_pos] # None

\* grid[x_pos][y_pos] = value.
SetCell(g, x_pos, y_pos, value) == [g EXCEPT ![x_pos][y_pos] = value]

\* random.random() < probability, with random.random() = r / ProbSteps.
Bernoulli(r, probability) == r < probability

\* random.shuffle(list(values_set)): every ordering of the set's elements.
Shuffles(S) ==
    {p \in [1..Cardinality(S) -> S] : \A i, j \in 1..Cardinality(S) : i # j => p[i] # p[j]}

\* Mutant of ListAppend: the record is put at the front.
ListPrepend(list, record) == <<record>> \o list

\* grids.append(record).
ListAppend(list, record) == Append(list, record)

\* The record main builds for one grid (lines 140-156).  uuid.uuid4() is a
\* fresh identifier; it is modelled by the record's ordinal.
GridRecord(g, does_include_target_number) ==
    [id |-> Len(grids) + 1,
     version |-> VERSION,
     session |-> sessions[session_i],
     condition |-> conditions[condition_i],
     targetNumber |-> target_number,
     doesIncludeTargetNumber |-> does_include_target_number,
     width |-> width,
     height |-> height,
     minValue |-> min_value,
     maxValue |-> max_value,
     targetNumberInclusionProbability |-> target_number_inclusion_probability,
     numberOfStimuli |-> number_of_stimuli,
     gridIndexInCondition |-> grid_index_in_condition,
     numberOfGridsPerCondition |-> number_of_grids_per_condition,
     values |-> g]

\* ----------------------------------------------------------- initial state
Configs ==
    [gridWidth : 1..MaxCells,
     gridHeight : 1..MaxCells,
     gridMinValue : 1..MaxValue,
     gridMaxValue : 1..MaxValue,
     gridTargetNumber : 0..MaxValue,
     gridTargetNumberInclusionProbability : 0..ProbSteps,
     gridNumberOfStimuli : 0..MaxStimuli,
     studyConditions : {SubSeq(ConditionNames, 1, k) : k \in 0..MaxConditions},
     studyNumberOfGridsPerCondition : 0..MaxGridsPerCondition,
     studySessions : {SubSeq(SessionNames, 1, k) : k \in 0..MaxSessions}]

\* A study of exactly one grid.
SingleGridStudy(c) ==
    /\ Len(c.studySessions) = 1
    /\ Len(c.studyConditions) = 1
    /\ c.studyNumberOfGridsPerCondition = 1

\* A grid whose generation has one outcome: one cell, one stimulus, one
\* eligible value, and a Bernoulli trial that cannot go both ways.
OneOutcomeGrid(c) ==
    /\ c.gridWidth = 1 /\ c.gridHeight = 1
    /\ c.gridNumberOfStimuli = 1
    /\ c.gridMinValue = c.gridMaxValue
    /\ c.gridTargetNumber # c.gridMinValue
    /\ c.gridTargetNumberInclusionProbability \in {0, ProbSteps}

\* The configurations explored: every grid configuration of at most
\* MaxCells cells with gridMinValue <= gridMaxValue (randint's precondition)
\* for a study of one grid, and every study shape for the one-outcome grids.
InitialConfigs ==
    {c \in Configs :
        /\ c.gridWidth * c.gridHeight <= MaxCells
        /\ c.gridMinValue <= c.gridMaxValue
        /\ SingleGridStudy(c) \/ OneOutcomeGrid(c)}

\* The state when main reaches line 125: config read, grids = [].
Init ==
    /\ config \in InitialConfigs
    /\ pc = "for_session"
    /\ session_i = 0
    /\ condition_i = 0
    /\ grid_index_in_condition = -1
    /\ grids = <<>>
    /\ grid = <<>>
    /\ values_set = {}
    /\ values_list = <<>>
    /\ value_i = 0
    /\ should_insert_target_number = FALSE
    /\ output_file = <<>>

\* ----------------------------------------------------------------- actions
locals == <<grid, values_set, values_list, value_i, should_insert_target_number>>

\* `for session in sessions` (line 125): take the next session, or leave
\* the loop for the write of line 159.
ForSession ==
    /\ pc = "for_session"
    /\ \/ /\ session_i < Len(sessions)
          /\ session_i' = session_i + 1
          /\ condition_i' = 0
          /\ pc' = "for_condition"
       \/ /\ session_i >= Len(sessions)
          /\ pc' = "write"
          /\ UNCHANGED <<session_i, condition_i>>
    /\ UNCHANGED <<config, grid_index_in_condition, grids, locals, output_file>>

\* `for condition in conditions` (line 127).
ForCondition ==
    /\ pc = "for_condition"
    /\ \/ /\ condition_i < Len(conditions)
          /\ condition_i' = condition_i + 1
          /\ grid_index_in_condition' = -1
          /\ pc' = "for_grid"
       \/ /\ condition_i >= Len(conditions)
          /\ pc' = "for_session"
          /\ UNCHANGED <<condition_i, grid_index_in_condition>>
    /\ UNCHANGED <<config, session_i, grids, locals, output_file>>

\* `for grid_index_in_condition in range(number_of_grids_per_condition)`
\* (line 129); on entry to the body generate_random_grid is called: it
\* builds the empty grid (line 63) and the empty values_set (line 35).
ForGrid ==
    /\ pc = "for_grid"
    /\ \/ /\ grid_index_in_condition + 1 \in Range(number_of_grids_per_condition)
          /\ grid_index_in_condition' = grid_index_in_condition + 1
          /\ grid' = get_grid(width, height)
          /\ values_set' = {}
          /\ pc' = "sample"
       \/ /\ grid_index_in_condition + 1 \notin Range(number_of_grids_per_condition)
          /\ pc' = "for_condition"
          /\ UNCHANGED <<grid_index_in_condition, grid, values_set>>
    /\ UNCHANGED <<config, session_i, condition_i, grids, values_list, value_i,
                   should_insert_target_number, output_file>>

\* Mutant of SampleValue: the draw starts at 0 instead of min_value.
SampleValueFromZero ==
    /\ pc = "sample"
    /\ Cardinality(values_set) < number_of_stimuli
    /\ \E new_value \in RandInt(0, max_value) :
          values_set' = IF IsExcluded(new_value, target_number)
                        THEN values_set
                        ELSE values_set \cup {new_value}
    /\ UNCHANGED <<config, pc, session_i, condition_i, grid_index_in_condition,
                   grids, grid, values_list, value_i,
                   should_insert_target_number, output_file>>

\* One iteration of the while loop of get_unique_random_values (lines 37-46).
SampleValue ==
    /\ pc = "sample"
    /\ Cardinality(values_set) < number_of_stimuli
    /\ \E new_value \in RandInt(min_value, max_value) :
          values_set' = IF IsExcluded(new_value, target_number)
                        THEN values_set
                        ELSE values_set \cup {new_value}
    /\ UNCHANGED <<config, pc, session_i, condition_i, grid_index_in_condition,
                   grids, grid, values_list, value_i,
                   should_insert_target_number, output_file>>

\* The while loop exits; the set is listed and shuffled (lines 49-52).
ShuffleValues ==
    /\ pc = "sample"
    /\ ~(Cardinality(values_set) < number_of_stimuli)
    /\ values_list' \in Shuffles(values_set)
    /\ value_i' = 0
    /\ pc' = "place"
    /\ UNCHANGED <<config, session_i, condition_i, grid_index_in_condition,
                   grids, grid, values_set, should_insert_target_number,
                   output_file>>

\* One iteration of the placement loop (lines 73-82) for the next value of
\* values_list: a draw of an empty cell places it, any other draw repeats.
PlaceValue ==
    /\ pc = "place"
    /\ value_i < Len(values_list)
    /\ \E x_pos \in RandInt(0, width - 1), y_pos \in RandInt(0, height - 1) :
          IF IsEmptyCell(grid, x_pos, y_pos)
          THEN /\ grid' = SetCell(grid, x_pos, y_pos, values_list[value_i + 1])
               /\ value_i' = value_i + 1
          ELSE UNCHANGED <<grid, value_i>>
    /\ UNCHANGED <<config, pc, session_i, condition_i, grid_index_in_condition,
                   grids, values_set, values_list,
                   should_insert_target_number, output_file>>

\* All values are placed; the Bernoulli trial of lines 85-88.
DrawShouldInsert ==
    /\ pc = "place"
    /\ value_i = Len(values_list)
    /\ \E r \in Range(ProbSteps) :
          /\ should_insert_target_number' =
                Bernoulli(r, target_number_inclusion_probability)
          /\ pc' = IF should_insert_target_number' THEN "substitute" ELSE "return"
    /\ UNCHANGED <<config, session_i, condition_i, grid_index_in_condition,
                   grids, grid, values_set, values_list, value_i, output_file>>

\* One iteration of the substitution loop (lines 90-97): a draw of an
\* occupied cell overwrites it with the target, any other draw repeats.
SubstituteTarget ==
    /\ pc = "substitute"
    /\ \E x_pos \in RandInt(0, width - 1), y_pos \in RandInt(0, height - 1) :
          IF IsOccupiedCell(grid, x_pos, y_pos)
          THEN /\ grid' = SetCell(grid, x_pos, y_pos, target_number)
               /\ pc' = "return"
          ELSE UNCHANGED <<grid, pc>>
    /\ UNCHANGED <<config, session_i, condition_i, grid_index_in_condition,
                   grids, values_set, values_list, value_i,
                   should_insert_target_number, output_file>>

\* generate_random_grid returns (line 99) and main appends the record
\* (lines 140-156); the callee's locals are gone.
AppendRecord ==
    /\ pc = "return"
    /\ grids' = ListAppend(grids, GridRecord(grid, should_insert_target_number))
    /\ grid' = <<>>
    /\ values_set' = {}
    /\ values_list' = <<>>
    /\ value_i' = 0
    /\ should_insert_target_number' = FALSE
    /\ pc' = "for_grid"
    /\ UNCHANGED <<config, session_i, condition_i, grid_index_in_condition,
                   output_file>>

\* json.dump(grids, ...) (lines 159-160).
WriteGrids ==
    /\ pc = "write"
    /\ output_file' = grids
    /\ pc' = "done"
    /\ UNCHANGED <<config, session_i, condition_i, grid_index_in_condition,
                   grids, locals>>

Next ==
    \/ ForSession
    \/ ForCondition
    \/ ForGrid
    \/ SampleValue
    \/ ShuffleValues
    \/ PlaceValue
    \/ DrawShouldInsert
    \/ SubstituteTarget
    \/ AppendRecord
    \/ WriteGrids

Spec == Init /\ [][Next]_vars

\* The program is single-threaded and keeps running, and its draws are fair:
\* a loop that can make progress by some draw eventually makes that draw.
\* At every control position one action is enabled, so weak fairness of
\* Next is weak fairness of each action.
FairSpec == Spec /\ WF_vars(Next)

\* ------------------------------------------------------ state descriptions
Cells == Range(width) \X Range(height)
OccupiedCells(g) == {c \in Cells : g[c[1]][c[2]] # None}
EmptyCells(g) == {c \in Cells : g[c[1]][c[2]] = None}
TargetCells(g) == {c \in Cells : g[c[1]][c[2]] = target_number}

\* The integers of [min_value, max_value] other than the target.
EligibleValues == {v \in min_value..max_value : v # target_number}

\* generate_random_grid is at its return statement (line 99).
Returned == pc = "return"

\* Position of a label in a list of distinct labels.
IndexOf(list, label) == CHOOSE i \in 1..Len(list) : list[i] = label

RecordKey(r) ==
    <<IndexOf(sessions, r.session), IndexOf(conditions, r.condition),
      r.gridIndexInCondition>>

LexLess(a, b) ==
    \/ a[1] < b[1]
    \/ a[1] = b[1] /\ a[2] < b[2]
    \/ a[1] = b[1] /\ a[2] = b[2] /\ a[3] < b[3]

\* ------------------------------------------------------------------ claims

\* C1: in every grid generate_random_grid returns, the number of non-empty
\* cells equals numberOfStimuli and the non-empty values are pairwise
\* distinct, whether or not the target was substituted.
C1_CountAndDistinct ==
    Returned =>
        /\ Cardinality(OccupiedCells(grid)) = number_of_stimuli
        /\ \A c, d \in OccupiedCells(grid) :
              c # d => grid[c[1]][c[2]] # grid[d[1]][d[2]]

\* A grid of at least two stimuli and a free cell is returned after the
\* target was substituted.
C1_Witness ==
    /\ Returned
    /\ should_insert_target_number
    /\ number_of_stimuli >= 2
    /\ EmptyCells(grid) # {}

\* C2: in every returned (grid, flag) pair, a true flag comes with exactly
\* one cell equal to targetNumber and a false flag with none.
C2_FlagMatchesGrid ==
    Returned =>
        Cardinality(TargetCells(grid)) = IF should_insert_target_number THEN 1 ELSE 0

\* Both flags are returned for a target inside the value range, with at
\* least two stimuli placed.
C2_Witness ==
    /\ Returned
    /\ number_of_stimuli >= 2
    /\ target_number \in min_value..max_value
    /\ Cardinality(TargetCells(grid)) = 1

\* C3 as stated: in every returned grid every non-empty cell value lies in
\* [minValue, maxValue], for every choice of targetNumber.
C3_AllValuesInRange ==
    Returned =>
        \A c \in OccupiedCells(grid) : grid[c[1]][c[2]] \in min_value..max_value

\* C3 amended: in every returned grid every non-empty cell value lies in
\* [minValue, maxValue] or is the substituted targetNumber; so all values
\* lie in the range when the target was not substituted or lies in it.
C3_ValuesInRangeOrTarget ==
    Returned =>
        /\ \A c \in OccupiedCells(grid) :
              \/ grid[c[1]][c[2]] \in min_value..max_value
              \/ should_insert_target_number /\ grid[c[1]][c[2]] = target_number
        /\ (~should_insert_target_number \/ target_number \in min_value..max_value) =>
              \A c \in OccupiedCells(grid) : grid[c[1]][c[2]] \in min_value..max_value

\* A returned grid holds a target from outside the range beside a stimulus.
C3_Witness ==
    /\ Returned
    /\ target_number \notin min_value..max_value
    /\ TargetCells(grid) # {}
    /\ OccupiedCells(grid) # TargetCells(grid)

\* A rejection loop that no draw can leave: every eligible value is already
\* in values_set and more are wanted, or a value is left to place and no
\* cell is empty.
StuckSampling ==
    /\ pc = "sample"
    /\ Cardinality(values_set) < number_of_stimuli
    /\ EligibleValues \subseteq values_set
StuckPlacing ==
    /\ pc = "place"
    /\ value_i < Len(values_list)
    /\ EmptyCells(grid) = {}

Infeasible ==
    \/ number_of_stimuli > Cardinality(EligibleValues)
    \/ number_of_stimuli > width * height

\* C4: with an infeasible configuration (more stimuli than eligible values
\* or than cells) the run is stopped as a configuration error and never
\* sits in a rejection-sampling loop that cannot end.
C4_InfeasibleDetected ==
    Infeasible => ~(StuckSampling \/ StuckPlacing)

\* C5: with numberOfStimuli = 0, once the Bernoulli trial is drawn the
\* substitution is skipped: the function is at its return with a fully
\* empty grid and the target reported as not inserted.
C5_NoStimuliNoSubstitution ==
    (number_of_stimuli = 0 /\ pc \in {"substitute", "return"}) =>
        /\ Returned
        /\ OccupiedCells(grid) = {}
        /\ ~should_insert_target_number

\* C6: the records of grids are in session-major, condition-second,
\* index-minor order, and within a session and condition the index runs
\* 0, 1, 2, ... below numberOfGridsPerCondition.
C6_RecordOrder ==
    /\ \A i, j \in 1..Len(grids) :
          i < j => LexLess(RecordKey(grids[i]), RecordKey(grids[j]))
    /\ \A i \in 1..Len(grids) :
          /\ grids[i].gridIndexInCondition \in Range(number_of_grids_per_condition)
          /\ grids[i].gridIndexInCondition > 0 =>
                /\ i > 1
                /\ grids[i - 1].session = grids[i].session
                /\ grids[i - 1].condition = grids[i].condition
                /\ grids[i - 1].gridIndexInCondition = grids[i].gridIndexInCondition - 1

\* Records of two sessions, two conditions and two indices are appended.
C6_Witness ==
    /\ Len(grids) >= 8
    /\ grids[Len(grids)].session # grids[1].session
    /\ grids[Len(grids)].condition # grids[1].condition
    /\ grids[Len(grids)].gridIndexInCondition # grids[1].gridIndexInCondition

\* C7: when main completes, the output holds len(sessions) *
\* len(conditions) * numberOfGridsPerCondition records, exactly one for
\* each (session, condition, index) triple.
C7_RecordCount ==
    pc = "done" =>
        /\ Len(output_file) =
              Len(sessions) * Len(conditions) * number_of_grids_per_condition
        /\ \A s \in 1..Len(sessions), c \in 1..Len(conditions),
              i \in 0..(number_of_grids_per_condition - 1) :
              Cardinality({k \in 1..Len(output_file) :
                              /\ output_file[k].session = sessions[s]
                              /\ output_file[k].condition = conditions[c]
                              /\ output_file[k].gridIndexInCondition = i}) = 1

\* main completes with the records of a 2 x 2 x 2 study written.
C7_Witness ==
    /\ pc = "done"
    /\ Len(sessions) >= 2 /\ Len(conditions) >= 2
    /\ number_of_grids_per_condition >= 2
    /\ Len(output_file) >= 8

\* C8 (two runs with the same configuration and seed agree) relates two
\* behaviours that consume the same draws.  Every action here is a function
\* of the state and of the draw it takes, so no formula over one behaviour
\* states it; it is left without a formula.

\* One step seen from the substitution: leaving the placement loop (the
\* Bernoulli trial) keeps the grid and goes to the substitution loop or, on
\* a failed trial, to the return; a substitution draw either keeps the grid
\* and repeats, or overwrites one occupied cell, which held a stimulus, with
\* the target, keeps every other cell and ends the loop.
SubstitutionStep ==
    /\ (pc = "place" /\ pc' # "place") =>
          /\ grid' = grid
          /\ pc' = IF should_insert_target_number' THEN "substitute" ELSE "return"
    /\ pc = "substitute" =>
          \/ pc' = "substitute" /\ grid' = grid
          \/ /\ pc' = "return"
             /\ should_insert_target_number'
             /\ \E c \in OccupiedCells(grid) :
                   /\ grid[c[1]][c[2]] # target_number
                   /\ grid' = [grid EXCEPT ![c[1]][c[2]] = target_number]
             /\ OccupiedCells(grid') = OccupiedCells(grid)
             /\ EmptyCells(grid') = EmptyCells(grid)

\* C9: when the Bernoulli trial succeeds the target-substitution step
\* changes exactly one cell: a cell occupied by a placed stimulus is
\* overwritten with targetNumber, every other cell keeps its value, empty
\* cells stay empty and the set of occupied positions is unchanged; when
\* the trial fails the grid is left unchanged.
C9_SubstitutionFrame == [][SubstitutionStep]_vars

\* A substituted grid with an empty cell and an untouched stimulus.
C9_Witness ==
    /\ Returned
    /\ should_insert_target_number
    /\ EmptyCells(grid) # {}
    /\ Cardinality(OccupiedCells(grid)) > Cardinality(TargetCells(grid))
    /\ width >= 2 /\ height >= 2

Feasible ==
    /\ number_of_stimuli >= 1
    /\ number_of_stimuli <= width * height
    /\ number_of_stimuli <= Cardinality(EligibleValues)

\* Placement is over: the for loop of line 73 is exhausted.
PlacementDone ==
    \/ pc = "place" /\ value_i = Len(values_list)
    \/ pc = "substitute"

\* C10: for a feasible configuration with 1 <= numberOfStimuli <=
\* width*height, under fair draws every call of generate_random_grid
\* reaches its return, and when numberOfStimuli = width*height every cell
\* is filled when placement is over.
C10_FeasibleReturns ==
    /\ [](Feasible /\ pc = "sample" => <>Returned)
    /\ [](PlacementDone /\ number_of_stimuli = width * height => EmptyCells(grid) = {})

\* A full grid (numberOfStimuli = width*height >= 2) is returned after the
\* substitution.
C10_Witness ==
    /\ Returned
    /\ number_of_stimuli = width * height
    /\ number_of_stimuli >= 2
    /\ should_insert_target_number
    /\ EmptyCells(grid) = {}

=============================================================================
